---- MODULE Spec2Model ----
(***************************************************************************)
(* gowsdl: the command line (cmd/gowsdl main) and the generator            *)
(* (GoWSDL.Start, unmarshal, resolveXSDExternals) as a state machine.      *)
(*                                                                         *)
(* Strings are sequences of one-character strings, so that fmt.Sprintf,    *)
(* concatenation and trimming are computed and not assumed.                *)
(***************************************************************************)
EXTENDS Integers, Sequences, FiniteSets, TLC

VARIABLES
    pc,                     \* position of the main goroutine (main, then Start)
    args,                   \* the parsed command line
    exitCode,               \* how the process ended ("none" while running)
    gloc,                   \* g.loc
    gpkg,                   \* g.pkg
    wsdlDoc,                \* the WSDL document read by unmarshal
    xsd,                    \* location -> the document download() read there
    fetched,                \* location -> number of fetchFile calls on it
    Schemas,                \* g.wsdl.Types.Schemas
    rawWSDL,                \* g.rawWSDL
    nRoot,                  \* length of Schemas when unmarshal's range loop started
    rootIdx,                \* index of unmarshal's range loop
    resolvedXSDExternals,   \* g.resolvedXSDExternals (the keys set to true)
    stack,                  \* active resolveXSDExternals calls, innermost last
    collided,               \* whether the collision pass has run
    preSchemas,             \* Schemas as the collision pass found them
    resolveCollisions,      \* g.resolveCollisions
    traversed,              \* number of schemas the traverser loop has visited
    gocode,                 \* Start's result map
    genErr,                 \* Start's shared error variable
    mu,                     \* holder of the mutex ("free" when unlocked)
    wg,                     \* the WaitGroup counter
    task,                   \* the three generator goroutines
    ret,                    \* what Start returned
    outDir,                 \* whether MkdirAll created the output directory
    pending,                \* bytes formatCode handed to the writeFile in progress
    fmtFailed,              \* files whose formatCode call saw format.Source fail
    ioErr,                  \* the filesystem call that returned an error, if any
    files,                  \* the two output files
    lockOrder,              \* the generators in the order their mu.Lock() returned
    Messages,               \* g.wsdl.Messages
    input,                  \* argument of the function a template calls
    output                  \* what the calls on input returned, by call

vars == <<pc, args, exitCode, gloc, gpkg, wsdlDoc, xsd, fetched, Schemas, rawWSDL,
          nRoot, rootIdx, resolvedXSDExternals, stack, collided, preSchemas,
          resolveCollisions, traversed, gocode, genErr, mu, wg, task, ret, outDir, pending, fmtFailed,
          ioErr, files, lockOrder, Messages, input, output>>

\* Variables by the code that owns them.
mainVars    == <<args, exitCode, outDir, pending, fmtFailed, ioErr, files>>
newVars     == <<gloc, gpkg>>
resolveVars == <<wsdlDoc, xsd, fetched, Schemas, rawWSDL, nRoot, rootIdx,
                 resolvedXSDExternals, stack>>
collideVars == <<collided, preSchemas, resolveCollisions, traversed>>
genVars     == <<gocode, genErr, mu, wg, task, lockOrder>>
callVars    == <<Messages, input, output>>

----------------------------------------------------------------------------
(* Bounds *)

MaxRootRefs == 2        \* import/include statements in a schema embedded in the WSDL
MaxExtRefs  == 1        \* import/include statements in an external schema
MaxDecls    == 2        \* complex types per schema in the name-collision inputs
MaxStack    == 3        \* nesting of resolveXSDExternals calls the model follows
MaxIdentLen == 3        \* length of the identifiers built from IdentChars
MaxMessages == 2        \* messages of the WSDL in the inputs of findType
MaxElements == 2        \* elements of a schema in the inputs of findType

----------------------------------------------------------------------------
(* Generic helpers *)

NIL == "nil"

BQ == "bq"              \* the backquote character

NoErr == <<>>           \* a nil error; errors are non-empty tuples

SeqsUpTo(S, n) == UNION {[1..k -> S] : k \in 0..n}

Range(s) == {s[i] : i \in DOMAIN s}

MapPut(m, k, v) == [x \in DOMAIN m \cup {k} |-> IF x = k THEN v ELSE m[x]]

----------------------------------------------------------------------------
(* Locations and references *)

W == "svc.wsdl"         \* the WSDL's own location
Locs == {W, "x.xsd", "y.xsd"}

\* schemaLocation attribute values. "" is an import without schemaLocation.
NoRef == ""
ImportRefs == {NoRef, "x.xsd", "y.xsd"}
IncludeRefs == {"./x.xsd", "y.xsd", "svc.wsdl"}

\* Location.Parse(ref): the absolute location of ref relative to base. All
\* documents of the model sit in one directory.
Parse(base, ref) ==
    CASE ref = "x.xsd"    -> "x.xsd"
      [] ref = "./x.xsd"  -> "x.xsd"
      [] ref = "y.xsd"    -> "y.xsd"
      [] ref = "svc.wsdl" -> W
      [] OTHER            -> base

----------------------------------------------------------------------------
(* Documents *)

\* An XSDSchema as far as Start and resolveXSDExternals read it. src is the
\* location of the document it was parsed from.
Schema(src, ns, cts, sts, imps, incs) ==
    [src |-> src, TargetNamespace |-> ns, ComplexTypes |-> cts, SimpleType |-> sts,
     Imports |-> imps, Includes |-> incs, Elements |-> <<>>]

\* The import/include lists a schema can carry with at most n statements.
RefLists(n) ==
    {p \in SeqsUpTo(ImportRefs, n) \X SeqsUpTo(IncludeRefs, n) : Len(p[1]) + Len(p[2]) <= n}

\* Inputs for external-schema resolution: the schemas declare no types.
GraphSchemas(n) == {Schema(NIL, "n1", <<>>, <<>>, p[1], p[2]) : p \in RefLists(n)}

OkDoc(schemas, raw) == [status |-> "ok", schemas |-> schemas, raw |-> raw]
BadDoc(status) == [status |-> status, schemas |-> <<>>, raw |-> <<>>]
FailedDocs == {BadDoc("fetchErr"), BadDoc("parseErr")}

GraphRootDocs ==
    {OkDoc(<<s>>, <<"w">>) : s \in GraphSchemas(MaxRootRefs)}
    \cup {OkDoc(<<s, t>>, <<"w">>) : s \in GraphSchemas(1), t \in GraphSchemas(1)}
    \cup FailedDocs

GraphExtDocs == {OkDoc(<<s>>, <<>>) : s \in GraphSchemas(MaxExtRefs)} \cup FailedDocs

\* What xml.Unmarshal into an XSDSchema makes of the WSDL document itself
\* depends on declarations outside this file: it fails, or yields a schema
\* without imports, includes and types.
WsdlAsXsdDocs == {BadDoc("parseErr"), OkDoc(<<Schema(NIL, "", <<>>, <<>>, <<>>, <<>>)>>, <<>>)}

\* Errors carry where they arose.
Err(kind, loc) == <<kind, loc>>
DocErr(doc, loc) == Err(doc.status, loc)

----------------------------------------------------------------------------
(* State after NewGoWSDL, before Start *)

NoFiles == [f \in {"client", "server"} |-> [created |-> FALSE, content |-> <<>>, complete |-> FALSE]]

Generators == {"types", "operations", "server"}

IdleTasks == [t \in Generators |-> [pc |-> "idle", code |-> <<>>, err |-> NoErr]]

EmptyMap == [k \in {} |-> <<>>]

NotReturned == [nilMap |-> TRUE, code |-> EmptyMap, err |-> NoErr]

GoodArgs == [vers |-> FALSE, nargs |-> 4, outFile |-> <<"o">>, wsdlPath |-> <<"w">>,
             pkg |-> <<"p">>]

\* Everything but the position, the documents and the call under study, as
\* construction leaves it.
Constructed ==
    /\ args = GoodArgs
    /\ exitCode = "none"
    /\ gloc = W
    /\ gpkg = <<"p">>
    /\ wsdlDoc = BadDoc("unread")
    /\ xsd = EmptyMap
    /\ fetched = [l \in Locs |-> 0]
    /\ rawWSDL = <<>>
    /\ nRoot = 0
    /\ rootIdx = 0
    /\ resolvedXSDExternals = {}
    /\ stack = <<>>
    /\ collided = FALSE
    /\ preSchemas = <<>>
    /\ resolveCollisions = EmptyMap
    /\ traversed = 0
    /\ gocode = EmptyMap
    /\ genErr = NoErr
    /\ mu = "free"
    /\ wg = 0
    /\ task = IdleTasks
    /\ ret = NotReturned
    /\ outDir = FALSE
    /\ pending = <<>>
    /\ fmtFailed = {}
    /\ ioErr = NoErr
    /\ files = NoFiles
    /\ lockOrder = <<>>

InitStart ==
    /\ pc = "unmarshal"
    /\ Constructed
    /\ Schemas = <<>>
    /\ Messages = <<>>
    /\ input = <<>>
    /\ output = EmptyMap

----------------------------------------------------------------------------
(* Start returns *)

\* return nil, err
StartFails(err) ==
    /\ ret' = [nilMap |-> TRUE, code |-> EmptyMap, err |-> err]
    /\ pc' = "returned"

----------------------------------------------------------------------------
(* unmarshal and resolveXSDExternals *)

\* The download() calls one resolveXSDExternals call makes, in order: the
\* imports that have a schemaLocation, then the includes.
Work(schema) == SelectSeq(schema.Imports, LAMBDA r : r # NoRef) \o schema.Includes

Frame(schema, loc) == [schema |-> schema, loc |-> loc, idx |-> 1]

Top == stack[Len(stack)]

SetTop(f) == [stack EXCEPT ![Len(stack)] = f]

\* The call on top of the stack is at a download() call.
AtDownload == /\ pc = "resolve" /\ stack # <<>> /\ Top.idx <= Len(Work(Top.schema))

Location == Parse(Top.loc, Work(Top.schema)[Top.idx])

\* The loop of unmarshal after the call for the rootIdx-th schema returned.
NextRoot(i) ==
    IF i <= nRoot'
    THEN /\ rootIdx' = i
         /\ stack' = <<Frame(Schemas'[i], gloc)>>
         /\ pc' = "resolve"
    ELSE /\ rootIdx' = i
         /\ stack' = <<>>
         /\ pc' = "collide"

\* unmarshal up to its first resolveXSDExternals call.
Unmarshal(RootDocs) ==
    /\ pc = "unmarshal"
    /\ \E doc \in RootDocs :
        /\ wsdlDoc' = doc
        /\ fetched' = [fetched EXCEPT ![gloc] = @ + 1]
        /\ IF doc.status # "ok"
           THEN /\ StartFails(DocErr(doc, gloc))
                /\ UNCHANGED <<Schemas, rawWSDL, nRoot, rootIdx, stack>>
           ELSE /\ Schemas' = [i \in DOMAIN doc.schemas |-> [doc.schemas[i] EXCEPT !.src = gloc]]
                /\ rawWSDL' = doc.raw
                /\ nRoot' = Len(doc.schemas)
                /\ NextRoot(1)
                /\ UNCHANGED ret
    /\ UNCHANGED <<xsd, resolvedXSDExternals>>
    /\ UNCHANGED <<mainVars, newVars, collideVars, genVars>>
    /\ UNCHANGED callVars

\* download(): the location is in resolvedXSDExternals already.
DownloadSkip ==
    /\ AtDownload
    /\ Location \in resolvedXSDExternals
    /\ stack' = SetTop([Top EXCEPT !.idx = @ + 1])
    /\ UNCHANGED <<pc, ret, wsdlDoc, xsd, fetched, Schemas, rawWSDL, nRoot, rootIdx,
                   resolvedXSDExternals>>
    /\ UNCHANGED <<mainVars, newVars, collideVars, genVars>>
    /\ UNCHANGED callVars

\* download() that logs the error of fetchFile or xml.Unmarshal and goes on
\* with the next import or include.
DownloadFailedSkips(doc, loc) ==
    /\ stack' = SetTop([Top EXCEPT !.idx = @ + 1])
    /\ UNCHANGED <<pc, ret, Schemas>>

\* download() returns the error of fetchFile or xml.Unmarshal; every
\* resolveXSDExternals call on the stack, unmarshal and Start return it.
DownloadFailed(doc, loc) ==
    /\ StartFails(DocErr(doc, loc))
    /\ stack' = <<>>
    /\ UNCHANGED Schemas

\* download() of a location not yet resolved: mark it (marked is the set
\* afterwards), fetch it, parse it, and recurse or append. The document is
\* what the environment holds there.
DownloadBody(ExtDocs, marked) ==
    /\ AtDownload
    /\ Len(stack) <= MaxStack
    /\ Location \notin resolvedXSDExternals
    /\ LET loc == Location IN
       /\ resolvedXSDExternals' = marked
       /\ fetched' = [fetched EXCEPT ![loc] = @ + 1]
       /\ \E doc \in (IF loc = gloc THEN WsdlAsXsdDocs ELSE ExtDocs) :
            /\ xsd' = MapPut(xsd, loc, doc)
            /\ IF doc.status # "ok"
               THEN DownloadFailed(doc, loc)
               ELSE LET newschema == [doc.schemas[1] EXCEPT !.src = loc] IN
                    IF Len(newschema.Includes) > 0 \/ Len(newschema.Imports) > 0
                    THEN /\ stack' = Append(stack, Frame(newschema, loc))
                         /\ UNCHANGED <<pc, ret, Schemas>>
                    ELSE /\ Schemas' = Append(Schemas, newschema)
                         /\ stack' = SetTop([Top EXCEPT !.idx = @ + 1])
                         /\ UNCHANGED <<pc, ret>>
    /\ UNCHANGED <<wsdlDoc, rawWSDL, nRoot, rootIdx>>
    /\ UNCHANGED <<mainVars, newVars, collideVars, genVars>>
    /\ UNCHANGED callVars

\* download() that forgets g.resolvedXSDExternals[schemaKey] = true.
DownloadNoMark(ExtDocs) == DownloadBody(ExtDocs, resolvedXSDExternals)

Download(ExtDocs) == DownloadBody(ExtDocs, resolvedXSDExternals \cup {Location})

\* A resolveXSDExternals call returns nil: into download(), which appends the
\* schema, or into unmarshal, which goes on with the next embedded schema.
ResolveReturn ==
    /\ pc = "resolve"
    /\ stack # <<>>
    /\ Top.idx > Len(Work(Top.schema))
    /\ IF Len(stack) > 1
       THEN /\ Schemas' = Append(Schemas, Top.schema)
            /\ stack' = [i \in 1..(Len(stack) - 1) |->
                            IF i = Len(stack) - 1
                            THEN [stack[i] EXCEPT !.idx = @ + 1]
                            ELSE stack[i]]
            /\ UNCHANGED <<pc, rootIdx>>
       ELSE /\ UNCHANGED <<Schemas, nRoot>>
            /\ NextRoot(rootIdx + 1)
    /\ UNCHANGED <<ret, wsdlDoc, xsd, fetched, rawWSDL, nRoot, resolvedXSDExternals>>
    /\ UNCHANGED <<mainVars, newVars, collideVars, genVars>>
    /\ UNCHANGED callVars

----------------------------------------------------------------------------
(* Start: the collision pass *)

\* Type names of the name-collision inputs.
Names == {<<"A">>, <<"A", "1">>, <<"B">>}
Namespaces == {"n1", "n2"}

Digit == <<"0", "1", "2", "3", "4", "5", "6", "7", "8", "9">>

\* %d
RECURSIVE Decimal(_)
Decimal(n) == IF n < 10 THEN <<Digit[n + 1]>> ELSE Decimal(n \div 10) \o <<Digit[(n % 10) + 1]>>

\* fmt.Sprintf("%s%d", org, num)
Renamed(org, num) == org \o Decimal(num)

\* fmt.Sprintf("%s/%s", schema.TargetNamespace, org)
CollisionKey(ns, org) == <<ns, "/">> \o org

\* A declaration is named by its schema, its list and its index in the list.
DeclsOf(S, i) ==
    [j \in 1..Len(S[i].ComplexTypes) |-> <<i, "complex", j>>]
    \o [j \in 1..Len(S[i].SimpleType) |-> <<i, "simple", j>>]

\* Every declaration in the order the loops of Start visit them.
RECURSIVE DeclsFrom(_, _)
DeclsFrom(S, i) == IF i > Len(S) THEN <<>> ELSE DeclsOf(S, i) \o DeclsFrom(S, i + 1)

Decls(S) == DeclsFrom(S, 1)

NameAt(S, d) ==
    IF d[2] = "complex" THEN S[d[1]].ComplexTypes[d[3]] ELSE S[d[1]].SimpleType[d[3]]

SetName(S, d, name) ==
    IF d[2] = "complex"
    THEN [S EXCEPT ![d[1]].ComplexTypes[d[3]] = name]
    ELSE [S EXCEPT ![d[1]].SimpleType[d[3]] = name]

\* seen after the counting loop and the deletion of the names counted once.
Seen(S) ==
    LET ds == Decls(S)
        count(n) == Cardinality({k \in DOMAIN ds : NameAt(S, ds[k]) = n})
    IN [n \in {m \in {NameAt(S, ds[k]) : k \in DOMAIN ds} : count(m) >= 2} |-> count(n)]

\* seen[name] of a Go map: zero for a missing key.
SeenGet(seen, name) == IF name \in DOMAIN seen THEN seen[name] ELSE 0

\* An iteration of the renaming loops without seen[org]--.
RenameOneNoDecrement(st, d) ==
    LET org == NameAt(st.S, d)
        num == SeenGet(st.seen, org)
        update == Renamed(org, num)
    IN IF num > 0
       THEN [S    |-> SetName(st.S, d, update),
             seen |-> st.seen,
             cmap |-> MapPut(st.cmap, CollisionKey(st.S[d[1]].TargetNamespace, org), update)]
       ELSE st

\* One iteration of either renaming loop, on declaration d.
RenameOne(st, d) ==
    LET org == NameAt(st.S, d)
        num == SeenGet(st.seen, org)
        update == Renamed(org, num)
    IN IF num > 0
       THEN [S    |-> SetName(st.S, d, update),
             seen |-> MapPut(st.seen, org, num - 1),
             cmap |-> MapPut(st.cmap, CollisionKey(st.S[d[1]].TargetNamespace, org), update)]
       ELSE st

\* The renaming loops from the k-th declaration on.
RECURSIVE RenameFrom(_, _, _)
RenameFrom(st, ds, k) == IF k > Len(ds) THEN st ELSE RenameFrom(RenameOne(st, ds[k]), ds, k + 1)

\* The whole pass: count, filter, rename.
Resolve(S, cmap) == RenameFrom([S |-> S, seen |-> Seen(S), cmap |-> cmap], Decls(S), 1)

CollisionPass ==
    /\ pc = "collide"
    /\ LET r == Resolve(Schemas, resolveCollisions) IN
       /\ Schemas' = r.S
       /\ resolveCollisions' = r.cmap
    /\ preSchemas' = Schemas
    /\ collided' = TRUE
    /\ pc' = "traverse"
    /\ UNCHANGED <<ret, wsdlDoc, xsd, fetched, rawWSDL, nRoot, rootIdx,
                   resolvedXSDExternals, stack, traversed>>
    /\ UNCHANGED <<mainVars, newVars, genVars>>
    /\ UNCHANGED callVars

\* Inputs for the collision pass: one schema embedded in the WSDL, which may
\* import a second one, once or twice.
NameSchemas(imps) ==
    {Schema(NIL, ns, cts, sts, imps, <<>>) :
        ns \in Namespaces, cts \in SeqsUpTo(Names, MaxDecls), sts \in SeqsUpTo(Names, 1)}

NameRootDocs ==
    {OkDoc(<<s>>, <<"w">>) :
        s \in NameSchemas(<<>>) \cup NameSchemas(<<"x.xsd">>) \cup NameSchemas(<<"x.xsd", "x.xsd">>)}

NameExtDocs == {OkDoc(<<s>>, <<>>) : s \in NameSchemas(<<>>)}

----------------------------------------------------------------------------
(* Start: the traverser loop and the three generators *)

\* The loop that runs newTraverser(...).traverse() on every schema.
Traverse ==
    /\ pc = "traverse"
    /\ traversed' = Len(Schemas)
    /\ pc' = "spawn"
    /\ UNCHANGED <<ret, collided, preSchemas, resolveCollisions>>
    /\ UNCHANGED <<mainVars, newVars, resolveVars, genVars>>
    /\ UNCHANGED callVars

\* The go statements placed before the collision pass.
SpawnEarly ==
    /\ pc \in {"collide", "spawn"}
    /\ \A t \in Generators : task[t].pc = "idle"
    /\ wg' = 3
    /\ task' = [t \in Generators |-> [task[t] EXCEPT !.pc = "running"]]
    /\ pc' = IF pc = "spawn" THEN "wait" ELSE pc
    /\ UNCHANGED <<ret, gocode, genErr, mu, lockOrder>>
    /\ UNCHANGED <<mainVars, newVars, resolveVars, collideVars>>
    /\ UNCHANGED callVars

\* wg.Add(3) and the three go statements.
Spawn ==
    /\ pc = "spawn"
    /\ wg' = 3
    /\ task' = [t \in Generators |-> [task[t] EXCEPT !.pc = "running"]]
    /\ pc' = "wait"
    /\ UNCHANGED <<ret, gocode, genErr, mu, lockOrder>>
    /\ UNCHANGED <<mainVars, newVars, resolveVars, collideVars>>
    /\ UNCHANGED callVars

\* What template execution can produce. "!" stands for text the Go parser
\* rejects; the types template may emit it and may emit loose spacing.
GenCodes(t) ==
    CASE t = "types"      -> {<<"t", " ", " ">>, <<"t", "!">>}
      [] t = "operations" -> {<<"o">>}
      [] t = "server"     -> {<<"s">>}

GenError(t) == Err("template", t)

\* code, err := genFunc()
GenFunc(t) ==
    /\ task[t].pc = "running"
    /\ \/ \E code \in GenCodes(t) :
            task' = [task EXCEPT ![t] = [pc |-> "returned", code |-> code, err |-> NoErr]]
       \/ task' = [task EXCEPT ![t] = [pc |-> "returned", code |-> <<>>, err |-> GenError(t)]]
    /\ UNCHANGED <<pc, ret, gocode, genErr, mu, wg, lockOrder>>
    /\ UNCHANGED <<mainVars, newVars, resolveVars, collideVars>>
    /\ UNCHANGED callVars

\* runWithMutex with a mutex of its own in every call: Lock never waits.
LockNoMutex(t) ==
    /\ task[t].pc = "returned"
    /\ mu' = t
    /\ task' = [task EXCEPT ![t].pc = "locked"]
    /\ lockOrder' = Append(lockOrder, t)
    /\ UNCHANGED <<pc, ret, gocode, genErr, wg>>
    /\ UNCHANGED <<mainVars, newVars, resolveVars, collideVars>>
    /\ UNCHANGED callVars

\* mu.Lock(), on either branch of runWithMutex.
Lock(t) ==
    /\ task[t].pc = "returned"
    /\ mu = "free"
    /\ mu' = t
    /\ task' = [task EXCEPT ![t].pc = "locked"]
    /\ lockOrder' = Append(lockOrder, t)
    /\ UNCHANGED <<pc, ret, gocode, genErr, wg>>
    /\ UNCHANGED <<mainVars, newVars, resolveVars, collideVars>>
    /\ UNCHANGED callVars

\* runWithMutex keeping the first error: genErr is set only while it is nil.
WriteFirstError(t) ==
    /\ task[t].pc = "locked"
    /\ IF task[t].err # NoErr
       THEN /\ genErr' = IF genErr = NoErr THEN task[t].err ELSE genErr
            /\ UNCHANGED gocode
       ELSE /\ gocode' = MapPut(gocode, t, task[t].code)
            /\ UNCHANGED genErr
    /\ task' = [task EXCEPT ![t].pc = "written"]
    /\ UNCHANGED <<pc, ret, mu, wg, lockOrder>>
    /\ UNCHANGED <<mainVars, newVars, resolveVars, collideVars>>
    /\ UNCHANGED callVars

\* genErr = err, or gocode[key] = code.
Write(t) ==
    /\ task[t].pc = "locked"
    /\ IF task[t].err # NoErr
       THEN /\ genErr' = task[t].err
            /\ UNCHANGED gocode
       ELSE /\ gocode' = MapPut(gocode, t, task[t].code)
            /\ UNCHANGED genErr
    /\ task' = [task EXCEPT ![t].pc = "written"]
    /\ UNCHANGED <<pc, ret, mu, wg, lockOrder>>
    /\ UNCHANGED <<mainVars, newVars, resolveVars, collideVars>>
    /\ UNCHANGED callVars

\* wg.Done() not deferred: the error branch returns without it.
UnlockNoDone(t) ==
    /\ task[t].pc = "written"
    /\ mu' = "free"
    /\ wg' = IF task[t].err # NoErr THEN wg ELSE wg - 1
    /\ task' = [task EXCEPT ![t].pc = "done"]
    /\ UNCHANGED <<pc, ret, gocode, genErr, lockOrder>>
    /\ UNCHANGED <<mainVars, newVars, resolveVars, collideVars>>
    /\ UNCHANGED callVars

\* mu.Unlock(), the return and the deferred wg.Done().
Unlock(t) ==
    /\ task[t].pc = "written"
    /\ mu' = "free"
    /\ wg' = wg - 1
    /\ task' = [task EXCEPT ![t].pc = "done"]
    /\ UNCHANGED <<pc, ret, gocode, genErr, lockOrder>>
    /\ UNCHANGED <<mainVars, newVars, resolveVars, collideVars>>
    /\ UNCHANGED callVars

\* return gocode, nil
StartSucceeds(code) ==
    /\ ret' = [nilMap |-> FALSE, code |-> code, err |-> NoErr]
    /\ pc' = "returned"

\* Start without the check of genErr after wg.Wait().
WaitIgnoresError ==
    /\ pc = "wait"
    /\ wg = 0
    /\ pc' = "header"
    /\ UNCHANGED ret
    /\ UNCHANGED <<mainVars, newVars, resolveVars, collideVars, genVars>>
    /\ UNCHANGED callVars

\* wg.Wait() returns; the check of genErr.
Wait ==
    /\ pc = "wait"
    /\ wg = 0
    /\ IF genErr # NoErr
       THEN StartFails(genErr)
       ELSE pc' = "header" /\ UNCHANGED ret
    /\ UNCHANGED <<mainVars, newVars, resolveVars, collideVars, genVars>>
    /\ UNCHANGED callVars

\* gocode["header"], err = g.genHeader()
GenHeader ==
    /\ pc = "header"
    /\ \/ /\ gocode' = MapPut(gocode, "header", <<"h">>)
          /\ pc' = "server_header"
          /\ UNCHANGED ret
       \/ /\ StartFails(GenError("header"))
          /\ UNCHANGED gocode
    /\ UNCHANGED <<genErr, mu, wg, task, lockOrder>>
    /\ UNCHANGED <<mainVars, newVars, resolveVars, collideVars>>
    /\ UNCHANGED callVars

\* []byte("var wsdl = BQ" + string(g.rawWSDL) + "BQ"), BQ the backquote
ServerWSDL(raw) == <<"var wsdl = ", BQ>> \o raw \o <<BQ>>

\* gocode["server_header"], err = g.genServerHeader(), then server_wsdl and
\* the return of the map.
GenServerHeader ==
    /\ pc = "server_header"
    /\ \/ LET code == MapPut(MapPut(gocode, "server_header", <<"H">>),
                             "server_wsdl", ServerWSDL(rawWSDL))
          IN /\ gocode' = code
             /\ StartSucceeds(code)
       \/ /\ StartFails(GenError("server_header"))
          /\ UNCHANGED gocode
    /\ UNCHANGED <<genErr, mu, wg, task, lockOrder>>
    /\ UNCHANGED <<mainVars, newVars, resolveVars, collideVars>>
    /\ UNCHANGED callVars

----------------------------------------------------------------------------
(* The command line *)

Files == {"client", "server"}

\* strings.TrimSpace
RECURSIVE TrimLeft(_)
TrimLeft(str) == IF str # <<>> /\ Head(str) = " " THEN TrimLeft(Tail(str)) ELSE str

RECURSIVE TrimRight(_)
TrimRight(str) ==
    IF str # <<>> /\ str[Len(str)] = " " THEN TrimRight(SubSeq(str, 1, Len(str) - 1)) ELSE str

TrimSpace(str) == TrimRight(TrimLeft(str))

\* ParseLocation rejects what is no path and no URL; "%" stands for a
\* malformed escape.
ParseLocationFails(file) == "%" \in Range(file)

\* log.Fatalln, os.Exit
Exit(code) ==
    /\ exitCode' = code
    /\ pc' = "exit"

\* main without the comparison of the output file and the WSDL path.
MainNoCheck ==
    /\ pc = "main"
    /\ IF args.vers
       THEN Exit("version")
       ELSE IF args.nargs < 2
       THEN Exit("usage")
       ELSE pc' = "new" /\ UNCHANGED exitCode
    /\ UNCHANGED <<args, outDir, pending, fmtFailed, ioErr, files, ret>>
    /\ UNCHANGED <<newVars, resolveVars, collideVars, genVars>>
    /\ UNCHANGED callVars

\* main up to the call of NewGoWSDL.
Main ==
    /\ pc = "main"
    /\ IF args.vers
       THEN Exit("version")
       ELSE IF args.nargs < 2
       THEN Exit("usage")
       ELSE IF args.outFile = args.wsdlPath
       THEN Exit("fatal")
       ELSE pc' = "new" /\ UNCHANGED exitCode
    /\ UNCHANGED <<args, outDir, pending, fmtFailed, ioErr, files, ret>>
    /\ UNCHANGED <<newVars, resolveVars, collideVars, genVars>>
    /\ UNCHANGED callVars

\* NewGoWSDL without the test of the trimmed file name.
NewGoWSDLNoCheck ==
    /\ pc = "new"
    /\ LET file == TrimSpace(args.wsdlPath)
           pkg  == TrimSpace(args.pkg)
       IN IF ParseLocationFails(file)
          THEN /\ Exit("fatal")
               /\ UNCHANGED <<gloc, gpkg>>
          ELSE /\ gloc' = W
               /\ gpkg' = IF pkg = <<>> THEN <<"generated_from_wsdl">> ELSE pkg
               /\ pc' = "unmarshal"
               /\ UNCHANGED exitCode
    /\ UNCHANGED <<args, outDir, pending, fmtFailed, ioErr, files, ret>>
    /\ UNCHANGED <<resolveVars, collideVars, genVars>>
    /\ UNCHANGED callVars

\* gen.NewGoWSDL and handleError.
NewGoWSDL ==
    /\ pc = "new"
    /\ LET file == TrimSpace(args.wsdlPath)
           pkg  == TrimSpace(args.pkg)
       IN IF file = <<>> \/ ParseLocationFails(file)
          THEN /\ Exit("fatal")
               /\ UNCHANGED <<gloc, gpkg>>
          ELSE /\ gloc' = W
               /\ gpkg' = IF pkg = <<>> THEN <<"generated_from_wsdl">> ELSE pkg
               /\ pc' = "unmarshal"
               /\ UNCHANGED exitCode
    /\ UNCHANGED <<args, outDir, pending, fmtFailed, ioErr, files, ret>>
    /\ UNCHANGED <<resolveVars, collideVars, genVars>>
    /\ UNCHANGED callVars

\* handleError on Start's error, then os.MkdirAll and handleError.
MkdirAll ==
    /\ pc = "returned"
    /\ IF ret.err # NoErr
       THEN /\ Exit("fatal")
            /\ UNCHANGED <<outDir, ioErr>>
       ELSE \/ /\ outDir' = TRUE
               /\ pc' = "create_client"
               /\ UNCHANGED <<exitCode, ioErr>>
            \/ /\ ioErr' = Err("MkdirAll", "dir")
               /\ Exit("fatal")
               /\ UNCHANGED outDir
    /\ UNCHANGED <<args, pending, fmtFailed, files, ret>>
    /\ UNCHANGED <<newVars, resolveVars, collideVars, genVars>>
    /\ UNCHANGED callVars

\* A nil map and a missing key both read as no bytes.
Get(code, key) == IF key \in DOMAIN code THEN code[key] ELSE <<>>

RECURSIVE Concat(_)
Concat(parts) == IF parts = <<>> THEN <<>> ELSE Head(parts) \o Concat(Tail(parts))

Count(str, c) == Cardinality({i \in DOMAIN str : str[i] = c})

\* format.Source fails on text that is no Go source: here a "!" or an
\* unterminated raw string.
SourceFails(src) == "!" \in Range(src) \/ Count(src, BQ) % 2 = 1

\* format.Source on Go source: runs of spaces become one space.
RECURSIVE Gofmt(_)
Gofmt(src) ==
    IF Len(src) < 2 THEN src
    ELSE IF src[1] = " " /\ src[2] = " " THEN Gofmt(Tail(src))
    ELSE <<src[1]>> \o Gofmt(Tail(src))

\* formatCode returning format.Source's result on its error too.
formatCodeNil(parts) ==
    LET data == Concat(parts) IN IF SourceFails(data) THEN <<>> ELSE Gofmt(data)

formatCode(parts) ==
    LET data == Concat(parts) IN IF SourceFails(data) THEN data ELSE Gofmt(data)

\* The arguments writeGeneratedCode gives formatCode for each file.
Parts(f, code) ==
    IF f = "client"
    THEN <<Get(code, "header"), Get(code, "types"), Get(code, "operations"), Get(code, "soap")>>
    ELSE <<Get(code, "server_header"), Get(code, "server_wsdl"), Get(code, "server")>>

\* writeFile: formatCode for its argument, then os.Create and handleError.
Create(f) ==
    /\ pc = "create_" \o f
    /\ pending' = formatCode(Parts(f, ret.code))
    /\ fmtFailed' = IF SourceFails(Concat(Parts(f, ret.code))) THEN fmtFailed \cup {f} ELSE fmtFailed
    /\ \/ /\ files' = [files EXCEPT ![f] = [created |-> TRUE, content |-> <<>>, complete |-> FALSE]]
          /\ pc' = "write_" \o f
          /\ UNCHANGED <<exitCode, ioErr>>
       \/ /\ ioErr' = Err("Create", f)
          /\ Exit("fatal")
          /\ UNCHANGED files
    /\ UNCHANGED <<args, outDir, ret>>
    /\ UNCHANGED <<newVars, resolveVars, collideVars, genVars>>
    /\ UNCHANGED callVars

\* writeFile: file.Write and handleError. A failed Write leaves a prefix.
WriteFile(f) ==
    /\ pc = "write_" \o f
    /\ \/ /\ files' = [files EXCEPT ![f].content = pending, ![f].complete = TRUE]
          /\ IF f = "client" THEN pc' = "create_server" /\ UNCHANGED exitCode ELSE Exit("ok")
          /\ UNCHANGED ioErr
       \/ /\ \E n \in 0..(Len(pending) - 1) :
                files' = [files EXCEPT ![f].content = SubSeq(pending, 1, n)]
          /\ ioErr' = Err("Write", f)
          /\ Exit("fatal")
    /\ UNCHANGED <<args, outDir, pending, fmtFailed, ret>>
    /\ UNCHANGED <<newVars, resolveVars, collideVars, genVars>>
    /\ UNCHANGED callVars

\* Command lines.
ArgSpace ==
    [vers : BOOLEAN, nargs : {1, 4}, outFile : {<<"o">>, <<"w">>},
     wsdlPath : {<<"w">>, <<" ">>, <<"%">>}, pkg : {<<"p">>, <<" ">>}]

\* Documents of the whole-run inputs: a WSDL with one schema that declares
\* type A and may import x.xsd, once or twice; an external schema declares A
\* too and may import y.xsd; the raw WSDL text may hold a backquote; any
\* fetch and any parse may fail.
FullRootDocs ==
    {OkDoc(<<Schema(NIL, "n1", <<<<"A">>>>, <<>>, imps, <<>>)>>, raw) :
        imps \in {<<>>, <<"x.xsd">>, <<"x.xsd", "x.xsd">>}, raw \in {<<"w">>, <<"w", BQ>>}}
    \cup {BadDoc("fetchErr")}

FullExtDocs ==
    {OkDoc(<<Schema(NIL, "n2", <<<<"A">>>>, <<>>, imps, <<>>)>>, <<>>) : imps \in {<<>>, <<"y.xsd">>}}
    \cup FailedDocs

Init ==
    /\ pc = "main"
    /\ args \in ArgSpace
    /\ exitCode = "none"
    /\ gloc = ""
    /\ gpkg = <<>>
    /\ wsdlDoc = BadDoc("unread")
    /\ xsd = EmptyMap
    /\ fetched = [l \in Locs |-> 0]
    /\ Schemas = <<>>
    /\ rawWSDL = <<>>
    /\ nRoot = 0
    /\ rootIdx = 0
    /\ resolvedXSDExternals = {}
    /\ stack = <<>>
    /\ collided = FALSE
    /\ preSchemas = <<>>
    /\ resolveCollisions = EmptyMap
    /\ traversed = 0
    /\ gocode = EmptyMap
    /\ genErr = NoErr
    /\ mu = "free"
    /\ wg = 0
    /\ task = IdleTasks
    /\ ret = NotReturned
    /\ outDir = FALSE
    /\ pending = <<>>
    /\ fmtFailed = {}
    /\ ioErr = NoErr
    /\ files = NoFiles
    /\ lockOrder = <<>>
    /\ Messages = <<>>
    /\ input = <<>>
    /\ output = EmptyMap

----------------------------------------------------------------------------
(* Characters *)

Lower == <<"a", "b", "c", "d", "e", "f", "g", "h", "i", "j", "k", "l", "m",
           "n", "o", "p", "q", "r", "s", "t", "u", "v", "w", "x", "y", "z">>

Upper == <<"A", "B", "C", "D", "E", "F", "G", "H", "I", "J", "K", "L", "M",
           "N", "O", "P", "Q", "R", "S", "T", "U", "V", "W", "X", "Y", "Z">>

\* unicode.IsLetter, unicode.IsDigit
IsLetter(r) == r \in Range(Lower) \cup Range(Upper)

IsDigit(r) == r \in Range(Digit)

\* unicode.ToUpper, unicode.ToLower
ToUpper(r) == IF \E i \in DOMAIN Lower : Lower[i] = r
              THEN Upper[CHOOSE i \in DOMAIN Lower : Lower[i] = r]
              ELSE r

ToLower(r) == IF \E i \in DOMAIN Upper : Upper[i] = r
              THEN Lower[CHOOSE i \in DOMAIN Upper : Upper[i] = r]
              ELSE r

\* strings.ToLower, strings.ToUpper
StringsToLower(str) == [i \in DOMAIN str |-> ToLower(str[i])]

StringsToUpper(str) == [i \in DOMAIN str |-> ToUpper(str[i])]

\* strings.EqualFold
EqualFold(s, t) == StringsToLower(s) = StringsToLower(t)

\* m[k] of a Go map[string]string: the empty string for a missing key.
Lookup(m, k) == IF k \in DOMAIN m THEN m[k] ELSE <<>>

\* strings.Split(str, ":")
RECURSIVE Split(_, _)
Split(str, cur) ==
    IF str = <<>> THEN <<cur>>
    ELSE IF Head(str) = ":" THEN <<cur>> \o Split(Tail(str), <<>>)
    ELSE Split(Tail(str), Append(cur, Head(str)))

----------------------------------------------------------------------------
(* Identifier sanitization *)

\* var reservedWords
reservedWords ==
    (<<"b", "r", "e", "a", "k">> :> <<"b", "r", "e", "a", "k", "_">>)
    @@ (<<"d", "e", "f", "a", "u", "l", "t">> :> <<"d", "e", "f", "a", "u", "l", "t", "_">>)
    @@ (<<"f", "u", "n", "c">> :> <<"f", "u", "n", "c", "_">>)
    @@ (<<"i", "n", "t", "e", "r", "f", "a", "c", "e">> :> <<"i", "n", "t", "e", "r", "f", "a", "c", "e", "_">>)
    @@ (<<"s", "e", "l", "e", "c", "t">> :> <<"s", "e", "l", "e", "c", "t", "_">>)
    @@ (<<"c", "a", "s", "e">> :> <<"c", "a", "s", "e", "_">>)
    @@ (<<"d", "e", "f", "e", "r">> :> <<"d", "e", "f", "e", "r", "_">>)
    @@ (<<"g", "o">> :> <<"g", "o", "_">>)
    @@ (<<"m", "a", "p">> :> <<"m", "a", "p", "_">>)
    @@ (<<"s", "t", "r", "u", "c", "t">> :> <<"s", "t", "r", "u", "c", "t", "_">>)
    @@ (<<"c", "h", "a", "n">> :> <<"c", "h", "a", "n", "_">>)
    @@ (<<"e", "l", "s", "e">> :> <<"e", "l", "s", "e", "_">>)
    @@ (<<"g", "o", "t", "o">> :> <<"g", "o", "t", "o", "_">>)
    @@ (<<"p", "a", "c", "k", "a", "g", "e">> :> <<"p", "a", "c", "k", "a", "g", "e", "_">>)
    @@ (<<"s", "w", "i", "t", "c", "h">> :> <<"s", "w", "i", "t", "c", "h", "_">>)
    @@ (<<"c", "o", "n", "s", "t">> :> <<"c", "o", "n", "s", "t", "_">>)
    @@ (<<"f", "a", "l", "l", "t", "h", "r", "o", "u", "g", "h">> :> <<"f", "a", "l", "l", "t", "h", "r", "o", "u", "g", "h", "_">>)
    @@ (<<"i", "f">> :> <<"i", "f", "_">>)
    @@ (<<"r", "a", "n", "g", "e">> :> <<"r", "a", "n", "g", "e", "_">>)
    @@ (<<"t", "y", "p", "e">> :> <<"t", "y", "p", "e", "_">>)
    @@ (<<"c", "o", "n", "t", "i", "n", "u", "e">> :> <<"c", "o", "n", "t", "i", "n", "u", "e", "_">>)
    @@ (<<"f", "o", "r">> :> <<"f", "o", "r", "_">>)
    @@ (<<"i", "m", "p", "o", "r", "t">> :> <<"i", "m", "p", "o", "r", "t", "_">>)
    @@ (<<"r", "e", "t", "u", "r", "n">> :> <<"r", "e", "t", "u", "r", "n", "_">>)
    @@ (<<"v", "a", "r">> :> <<"v", "a", "r", "_">>)

\* var reservedWordsInAttr
reservedWordsInAttr ==
    (<<"b", "r", "e", "a", "k">> :> <<"b", "r", "e", "a", "k", "_">>)
    @@ (<<"d", "e", "f", "a", "u", "l", "t">> :> <<"d", "e", "f", "a", "u", "l", "t", "_">>)
    @@ (<<"f", "u", "n", "c">> :> <<"f", "u", "n", "c", "_">>)
    @@ (<<"i", "n", "t", "e", "r", "f", "a", "c", "e">> :> <<"i", "n", "t", "e", "r", "f", "a", "c", "e", "_">>)
    @@ (<<"s", "e", "l", "e", "c", "t">> :> <<"s", "e", "l", "e", "c", "t", "_">>)
    @@ (<<"c", "a", "s", "e">> :> <<"c", "a", "s", "e", "_">>)
    @@ (<<"d", "e", "f", "e", "r">> :> <<"d", "e", "f", "e", "r", "_">>)
    @@ (<<"g", "o">> :> <<"g", "o", "_">>)
    @@ (<<"m", "a", "p">> :> <<"m", "a", "p", "_">>)
    @@ (<<"s", "t", "r", "u", "c", "t">> :> <<"s", "t", "r", "u", "c", "t", "_">>)
    @@ (<<"c", "h", "a", "n">> :> <<"c", "h", "a", "n", "_">>)
    @@ (<<"e", "l", "s", "e">> :> <<"e", "l", "s", "e", "_">>)
    @@ (<<"g", "o", "t", "o">> :> <<"g", "o", "t", "o", "_">>)
    @@ (<<"p", "a", "c", "k", "a", "g", "e">> :> <<"p", "a", "c", "k", "a", "g", "e", "_">>)
    @@ (<<"s", "w", "i", "t", "c", "h">> :> <<"s", "w", "i", "t", "c", "h", "_">>)
    @@ (<<"c", "o", "n", "s", "t">> :> <<"c", "o", "n", "s", "t", "_">>)
    @@ (<<"f", "a", "l", "l", "t", "h", "r", "o", "u", "g", "h">> :> <<"f", "a", "l", "l", "t", "h", "r", "o", "u", "g", "h", "_">>)
    @@ (<<"i", "f">> :> <<"i", "f", "_">>)
    @@ (<<"r", "a", "n", "g", "e">> :> <<"r", "a", "n", "g", "e", "_">>)
    @@ (<<"t", "y", "p", "e">> :> <<"t", "y", "p", "e", "_">>)
    @@ (<<"c", "o", "n", "t", "i", "n", "u", "e">> :> <<"c", "o", "n", "t", "i", "n", "u", "e", "_">>)
    @@ (<<"f", "o", "r">> :> <<"f", "o", "r", "_">>)
    @@ (<<"i", "m", "p", "o", "r", "t">> :> <<"i", "m", "p", "o", "r", "t", "_">>)
    @@ (<<"r", "e", "t", "u", "r", "n">> :> <<"r", "e", "t", "u", "r", "n", "_">>)
    @@ (<<"v", "a", "r">> :> <<"v", "a", "r", "_">>)
    @@ (<<"s", "t", "r", "i", "n", "g">> :> <<"a", "s", "t", "r", "i", "n", "g">>)

\* var specialCharacterMapping
specialCharacterMapping == ("+" :> <<"P", "l", "u", "s">>) @@ ("@" :> <<"A", "t">>)

\* strings.ReplaceAll(value, k, v) for a one-character k
RECURSIVE ReplaceAll(_, _, _)
ReplaceAll(value, k, v) ==
    IF value = <<>> THEN <<>>
    ELSE (IF Head(value) = k THEN v ELSE <<Head(value)>>) \o ReplaceAll(Tail(value), k, v)

\* The loop of normalize over specialCharacterMapping, its keys in the order
\* the range statement yields them.
RECURSIVE ReplaceSpecial(_, _)
ReplaceSpecial(value, keys) ==
    IF keys = <<>> THEN value
    ELSE ReplaceSpecial(ReplaceAll(value, Head(keys), specialCharacterMapping[Head(keys)]),
                        Tail(keys))

\* The orders in which range may yield the keys of specialCharacterMapping.
RangeOrders == {<<"+", "@">>, <<"@", "+">>}

\* mapping with the hyphen returned for the dot.
mappingDotToHyphen(r) ==
    IF r = "." THEN <<"-">>
    ELSE IF r = "-" THEN <<"_">>
    ELSE IF IsLetter(r) \/ IsDigit(r) \/ r = "_" THEN <<r>>
    ELSE <<>>

\* mapping of normalize; no character stands for -1, which drops the rune.
mapping(r) ==
    IF r = "." \/ r = "-" THEN <<"_">>
    ELSE IF IsLetter(r) \/ IsDigit(r) \/ r = "_" THEN <<r>>
    ELSE <<>>

\* strings.Map(mapping, value)
RECURSIVE StringsMap(_)
StringsMap(value) == IF value = <<>> THEN <<>> ELSE mapping(Head(value)) \o StringsMap(Tail(value))

normalizeIn(keys, value) == StringsMap(ReplaceSpecial(value, keys))

normalize(value) == normalizeIn(<<"+", "@">>, value)

replaceReservedWords(identifier) ==
    LET value == Lookup(reservedWords, identifier)
    IN IF value # <<>> THEN value ELSE normalize(identifier)

replaceAttrReservedWords(identifier) ==
    LET value == Lookup(reservedWordsInAttr, identifier)
    IN IF value # <<>> THEN value ELSE normalize(identifier)

\* The three functions the templates sanitize identifiers with.
Sanitizers == {"replaceReservedWords", "replaceAttrReservedWords", "normalize"}

Apply(fn, identifier) ==
    CASE fn = "replaceReservedWords"     -> replaceReservedWords(identifier)
      [] fn = "replaceAttrReservedWords" -> replaceAttrReservedWords(identifier)
      [] fn = "normalize"                -> normalize(identifier)

\* What the calls of fn returned so far.
Returned(fn) == IF fn \in DOMAIN output THEN output[fn] ELSE <<>>

\* A template calls fn on the identifier, and then on what that call returned.
Sanitize(fn) ==
    /\ pc = "sanitize"
    /\ Len(Returned(fn)) < 2
    /\ LET prev == Returned(fn)
           x == IF prev = <<>> THEN input ELSE prev[Len(prev)]
       IN output' = MapPut(output, fn, Append(prev, Apply(fn, x)))
    /\ UNCHANGED <<pc, ret, input, Messages>>
    /\ UNCHANGED <<mainVars, newVars, resolveVars, collideVars, genVars>>

\* Identifiers of the inputs: every string of at most MaxIdentLen of these
\* characters, and every reserved word, alone and with one character that
\* normalize drops or replaces put before or after it.
IdentChars == {"g", "o", "+", "@", "-", ".", "!"}

Decorations == {"!", "-", "+"}

Identifiers ==
    SeqsUpTo(IdentChars, MaxIdentLen)
    \cup DOMAIN reservedWordsInAttr
    \cup {w \o <<c>> : w \in DOMAIN reservedWordsInAttr, c \in Decorations}
    \cup {<<c>> \o w : w \in DOMAIN reservedWordsInAttr, c \in Decorations}

----------------------------------------------------------------------------
(* Type names *)

\* var xsd2GoTypes
xsd2GoTypes ==
    (<<"s", "t", "r", "i", "n", "g">> :> <<"s", "t", "r", "i", "n", "g">>)
    @@ (<<"t", "o", "k", "e", "n">> :> <<"s", "t", "r", "i", "n", "g">>)
    @@ (<<"f", "l", "o", "a", "t">> :> <<"f", "l", "o", "a", "t", "3", "2">>)
    @@ (<<"d", "o", "u", "b", "l", "e">> :> <<"f", "l", "o", "a", "t", "6", "4">>)
    @@ (<<"d", "e", "c", "i", "m", "a", "l">> :> <<"f", "l", "o", "a", "t", "6", "4">>)
    @@ (<<"i", "n", "t", "e", "g", "e", "r">> :> <<"i", "n", "t", "3", "2">>)
    @@ (<<"i", "n", "t">> :> <<"i", "n", "t", "3", "2">>)
    @@ (<<"s", "h", "o", "r", "t">> :> <<"i", "n", "t", "1", "6">>)
    @@ (<<"b", "y", "t", "e">> :> <<"i", "n", "t", "8">>)
    @@ (<<"l", "o", "n", "g">> :> <<"i", "n", "t", "6", "4">>)
    @@ (<<"b", "o", "o", "l", "e", "a", "n">> :> <<"b", "o", "o", "l">>)
    @@ (<<"d", "a", "t", "e", "t", "i", "m", "e">> :> <<"s", "t", "r", "i", "n", "g">>)
    @@ (<<"d", "a", "t", "e">> :> <<"s", "t", "r", "i", "n", "g">>)
    @@ (<<"t", "i", "m", "e">> :> <<"s", "t", "r", "i", "n", "g">>)
    @@ (<<"b", "a", "s", "e", "6", "4", "b", "i", "n", "a", "r", "y">> :> <<"[", "]", "b", "y", "t", "e">>)
    @@ (<<"h", "e", "x", "b", "i", "n", "a", "r", "y">> :> <<"[", "]", "b", "y", "t", "e">>)
    @@ (<<"u", "n", "s", "i", "g", "n", "e", "d", "i", "n", "t">> :> <<"u", "i", "n", "t", "3", "2">>)
    @@ (<<"n", "o", "n", "n", "e", "g", "a", "t", "i", "v", "e", "i", "n", "t", "e", "g", "e", "r">> :> <<"u", "i", "n", "t", "3", "2">>)
    @@ (<<"u", "n", "s", "i", "g", "n", "e", "d", "s", "h", "o", "r", "t">> :> <<"u", "i", "n", "t", "1", "6">>)
    @@ (<<"u", "n", "s", "i", "g", "n", "e", "d", "b", "y", "t", "e">> :> <<"b", "y", "t", "e">>)
    @@ (<<"u", "n", "s", "i", "g", "n", "e", "d", "l", "o", "n", "g">> :> <<"u", "i", "n", "t", "6", "4">>)
    @@ (<<"a", "n", "y", "t", "y", "p", "e">> :> <<"A", "n", "y", "T", "y", "p", "e">>)
    @@ (<<"n", "c", "n", "a", "m", "e">> :> <<"N", "C", "N", "a", "m", "e">>)
    @@ (<<"a", "n", "y", "u", "r", "i">> :> <<"A", "n", "y", "U", "R", "I">>)
    @@ (<<"s", "d", "p", "s", "t", "r", "i", "n", "g">> :> <<"s", "t", "r", "i", "n", "g">>)
    @@ (<<"s", "d", "p", "b", "o", "o", "l", "e", "a", "n">> :> <<"b", "o", "o", "l">>)
    @@ (<<"s", "d", "p", "b", "y", "t", "e">> :> <<"i", "n", "t", "8">>)
    @@ (<<"s", "d", "p", "b", "i", "g", "d", "e", "c", "i", "m", "a", "l">> :> <<"f", "l", "o", "a", "t", "6", "4">>)
    @@ (<<"s", "d", "p", "l", "o", "n", "g">> :> <<"i", "n", "t", "6", "4">>)
    @@ (<<"s", "d", "p", "i", "n", "t", "e", "g", "e", "r">> :> <<"i", "n", "t", "3", "2">>)
    @@ (<<"s", "d", "p", "b", "i", "g", "i", "n", "t", "e", "g", "e", "r">> :> <<"i", "n", "t", "3", "2">>)
    @@ (<<"s", "d", "p", "f", "l", "o", "a", "t">> :> <<"f", "l", "o", "a", "t", "3", "2">>)
    @@ (<<"s", "d", "p", "d", "o", "u", "b", "l", "e">> :> <<"f", "l", "o", "a", "t", "6", "4">>)
    @@ (<<"s", "d", "p", "s", "h", "o", "r", "t">> :> <<"i", "n", "t", "1", "6">>)
    @@ (<<"s", "d", "p", "d", "a", "t", "e">> :> <<"s", "t", "r", "i", "n", "g">>)
    @@ (<<"s", "d", "p", "t", "i", "m", "e">> :> <<"s", "t", "r", "i", "n", "g">>)
    @@ (<<"s", "d", "p", "d", "a", "t", "e", "t", "i", "m", "e">> :> <<"s", "t", "r", "i", "n", "g">>)
    @@ (<<"t", "i", "m", "e", "s", "t", "a", "m", "p">> :> <<"i", "n", "t", "6", "4">>)

\* var basicTypes
basicTypes ==
    (<<"s", "t", "r", "i", "n", "g">> :> <<"s", "t", "r", "i", "n", "g">>)
    @@ (<<"f", "l", "o", "a", "t", "3", "2">> :> <<"f", "l", "o", "a", "t", "3", "2">>)
    @@ (<<"f", "l", "o", "a", "t", "6", "4">> :> <<"f", "l", "o", "a", "t", "6", "4">>)
    @@ (<<"i", "n", "t">> :> <<"i", "n", "t">>)
    @@ (<<"i", "n", "t", "8">> :> <<"i", "n", "t", "8">>)
    @@ (<<"i", "n", "t", "1", "6">> :> <<"i", "n", "t", "1", "6">>)
    @@ (<<"i", "n", "t", "3", "2">> :> <<"i", "n", "t", "3", "2">>)
    @@ (<<"i", "n", "t", "6", "4">> :> <<"i", "n", "t", "6", "4">>)
    @@ (<<"b", "o", "o", "l">> :> <<"b", "o", "o", "l">>)
    @@ (<<"t", "i", "m", "e", ".", "T", "i", "m", "e">> :> <<"t", "i", "m", "e", ".", "T", "i", "m", "e">>)
    @@ (<<"[", "]", "b", "y", "t", "e">> :> <<"[", "]", "b", "y", "t", "e">>)
    @@ (<<"b", "y", "t", "e">> :> <<"b", "y", "t", "e">>)
    @@ (<<"u", "i", "n", "t", "1", "6">> :> <<"u", "i", "n", "t", "1", "6">>)
    @@ (<<"u", "i", "n", "t", "3", "2">> :> <<"u", "i", "n", "t", "3", "2">>)
    @@ (<<"u", "i", "n", "i", "t", "6", "4">> :> <<"u", "i", "n", "t", "6", "4">>)
    @@ (<<"i", "n", "t", "e", "r", "f", "a", "c", "e", "{", "}">> :> <<"i", "n", "t", "e", "r", "f", "a", "c", "e", "{", "}">>)

stripns(xsdType) ==
    LET r == Split(xsdType, <<>>) IN IF Len(r) = 2 THEN r[2] ELSE r[1]

isBasicType(identifier) == identifier \in DOMAIN basicTypes

makePublic(identifier) ==
    IF isBasicType(identifier) THEN identifier
    ELSE IF identifier = <<>> THEN <<"E", "m", "p", "t", "y", "S", "t", "r", "i", "n", "g">>
    ELSE [identifier EXCEPT ![1] = ToUpper(@)]

\* toGoType without the test of nillable.
toGoTypeNoPointer(xsdType, nillable) ==
    LET r == Split(xsdType, <<>>)
        t == IF Len(r) = 2 THEN r[2] ELSE r[1]
        value == Lookup(xsd2GoTypes, StringsToLower(t))
    IN IF value # <<>>
       THEN value
       ELSE <<"*">> \o replaceReservedWords(makePublic(t))

toGoType(xsdType, nillable) ==
    LET r == Split(xsdType, <<>>)
        t == IF Len(r) = 2 THEN r[2] ELSE r[1]
        value == Lookup(xsd2GoTypes, StringsToLower(t))
    IN IF value # <<>>
       THEN IF nillable THEN <<"*">> \o value ELSE value
       ELSE <<"*">> \o replaceReservedWords(makePublic(t))

\* The key of output under which a call of toGoType is kept.
Form(nillable) == IF nillable THEN "nillable" ELSE "value"

\* A template calls toGoType on the type name.
ToGoType(nillable) ==
    /\ pc = "toGoType"
    /\ Form(nillable) \notin DOMAIN output
    /\ output' = MapPut(output, Form(nillable), toGoType(input, nillable))
    /\ UNCHANGED <<pc, ret, input, Messages>>
    /\ UNCHANGED <<mainVars, newVars, resolveVars, collideVars, genVars>>

\* Type names of the inputs: every key of xsd2GoTypes as it is, in upper case
\* and with a capital first letter, and names of no table; each without a
\* prefix, with one and with a prefix that holds a colon itself.
ComplexNames ==
    {<<>>, <<"f", "o", "o">>, <<"F", "o", "o">>, <<"g", "o">>, <<"i", "n", "t", "3", "2">>,
     <<"a", "-", "b">>}

LocalNames ==
    DOMAIN xsd2GoTypes
    \cup {StringsToUpper(k) : k \in DOMAIN xsd2GoTypes}
    \cup {[k EXCEPT ![1] = ToUpper(@)] : k \in DOMAIN xsd2GoTypes}
    \cup ComplexNames

Prefixes == {<<>>, <<"x", "s", ":">>, <<"t", ":", "x", "s", ":">>}

XsdTypes == {p \o n : p \in Prefixes, n \in LocalNames}

----------------------------------------------------------------------------
(* findType *)

NotFound == [found |-> FALSE, type |-> <<>>]

\* The loops over the schemas and their elements with == for EqualFold.
RECURSIVE FindElementExact(_, _, _, _)
FindElementExact(S, elRef, i, j) ==
    IF i > Len(S) THEN NotFound
    ELSE IF j > Len(S[i].Elements) THEN FindElementExact(S, elRef, i + 1, 1)
    ELSE LET el == S[i].Elements[j] IN
         IF elRef = el.Name
         THEN [found |-> TRUE, type |-> IF el.Type # <<>> THEN stripns(el.Type) ELSE el.Name]
         ELSE FindElementExact(S, elRef, i, j + 1)

\* The loops of findType over the schemas and their elements, from the j-th
\* element of the i-th schema on.
RECURSIVE FindElement(_, _, _, _)
FindElement(S, elRef, i, j) ==
    IF i > Len(S) THEN NotFound
    ELSE IF j > Len(S[i].Elements) THEN FindElement(S, elRef, i + 1, 1)
    ELSE LET el == S[i].Elements[j] IN
         IF EqualFold(elRef, el.Name)
         THEN [found |-> TRUE, type |-> IF el.Type # <<>> THEN stripns(el.Type) ELSE el.Name]
         ELSE FindElement(S, elRef, i, j + 1)

\* The loop of findType over the messages, from the i-th on.
RECURSIVE FindTypeFrom(_, _)
FindTypeFrom(message, i) ==
    IF i > Len(Messages) THEN <<>>
    ELSE LET msg == Messages[i] IN
         IF msg.Name # message THEN FindTypeFrom(message, i + 1)
         ELSE IF Len(msg.Parts) = 0 THEN FindTypeFrom(message, i + 1)
         ELSE LET part == msg.Parts[1] IN
              IF part.Type # <<>> THEN stripns(part.Type)
              ELSE LET el == FindElement(Schemas, stripns(part.Element), 1, 1) IN
                   IF el.found THEN el.type ELSE FindTypeFrom(message, i + 1)

findType(message) == FindTypeFrom(stripns(message), 1)

\* A template calls findType on a message name.
FindType ==
    /\ pc = "findType"
    /\ "findType" \notin DOMAIN output
    /\ output' = MapPut(output, "findType", findType(input))
    /\ UNCHANGED <<pc, ret, input, Messages>>
    /\ UNCHANGED <<mainVars, newVars, resolveVars, collideVars, genVars>>

\* Inputs of findType. A part carries a type, an element reference, both or
\* neither; a message has no part, one, or two.
PartSpace == [Type : {<<>>, <<"x", ":", "T">>}, Element : {<<>>, <<"t", ":", "e">>}]

PartLists ==
    {<<>>}
    \cup {<<p>> : p \in PartSpace}
    \cup {<<[Type |-> <<>>, Element |-> <<"t", ":", "e">>], [Type |-> <<"x", ":", "T">>, Element |-> <<>>]>>}

MessageSpace == [Name : {<<"m">>, <<"n">>}, Parts : PartLists]

ElementSpace ==
    {[Name |-> <<"e">>, Type |-> <<>>], [Name |-> <<"E">>, Type |-> <<"y", ":", "U">>],
     [Name |-> <<"f">>, Type |-> <<"V">>], [Name |-> <<"e">>, Type |-> <<"V">>]}

ElementSchema(els) == [Schema(W, "n1", <<>>, <<>>, <<>>, <<>>) EXCEPT !.Elements = els]

\* One schema of up to MaxElements elements, or two of at most one each.
ElementSchemas ==
    {<<ElementSchema(els)>> : els \in SeqsUpTo(ElementSpace, MaxElements)}
    \cup {<<ElementSchema(a), ElementSchema(b)>> :
            a \in SeqsUpTo(ElementSpace, 1), b \in SeqsUpTo(ElementSpace, 1)}

MessageNames == {<<"m">>, <<"t", ":", "m">>}

----------------------------------------------------------------------------
(* Specifications *)

NextResolve ==
    \/ Unmarshal(GraphRootDocs)
    \/ DownloadSkip
    \/ Download(GraphExtDocs)
    \/ ResolveReturn

SpecResolve == InitStart /\ [][NextResolve]_vars

\* The main goroutine is the only one running during resolution and is
\* always scheduled.
FairResolve == SpecResolve /\ WF_vars(NextResolve)

NextCollide ==
    \/ Unmarshal(NameRootDocs)
    \/ DownloadSkip
    \/ Download(NameExtDocs)
    \/ ResolveReturn
    \/ CollisionPass

SpecCollide == InitStart /\ [][NextCollide]_vars

Next ==
    \/ Main
    \/ NewGoWSDL
    \/ Unmarshal(FullRootDocs)
    \/ DownloadSkip
    \/ Download(FullExtDocs)
    \/ ResolveReturn
    \/ CollisionPass
    \/ Traverse
    \/ Spawn
    \/ \E t \in Generators : GenFunc(t)
    \/ \E t \in Generators : Lock(t)
    \/ \E t \in Generators : Write(t)
    \/ \E t \in Generators : Unlock(t)
    \/ Wait
    \/ GenHeader
    \/ GenServerHeader
    \/ MkdirAll
    \/ \E f \in Files : Create(f)
    \/ \E f \in Files : WriteFile(f)

Spec == Init /\ [][Next]_vars

\* The Go scheduler runs every goroutine that can run: the main goroutine
\* and each generator goroutine take their next step.
MainStep ==
    \/ Main \/ NewGoWSDL \/ Unmarshal(FullRootDocs) \/ DownloadSkip \/ Download(FullExtDocs)
    \/ ResolveReturn
    \/ CollisionPass \/ Traverse \/ Spawn \/ Wait \/ GenHeader \/ GenServerHeader \/ MkdirAll
    \/ \E f \in Files : Create(f)
    \/ \E f \in Files : WriteFile(f)

TaskStep(t) == Lock(t) \/ Write(t) \/ Unlock(t)

FairSpec == Spec /\ WF_vars(MainStep) /\ \A t \in Generators : WF_vars(TaskStep(t))

\* A template sanitizes an identifier.
InitSanitize ==
    /\ pc = "sanitize"
    /\ Constructed
    /\ Schemas = <<>>
    /\ Messages = <<>>
    /\ input \in Identifiers
    /\ output = EmptyMap

NextSanitize == \E fn \in Sanitizers : Sanitize(fn)

SpecSanitize == InitSanitize /\ [][NextSanitize]_vars

\* A template maps a schema type name.
InitToGoType ==
    /\ pc = "toGoType"
    /\ Constructed
    /\ Schemas = <<>>
    /\ Messages = <<>>
    /\ input \in XsdTypes
    /\ output = EmptyMap

NextToGoType == \E nillable \in BOOLEAN : ToGoType(nillable)

SpecToGoType == InitToGoType /\ [][NextToGoType]_vars

\* A template looks up the type of a message, after resolution.
InitFindType ==
    /\ pc = "findType"
    /\ Constructed
    /\ Schemas \in ElementSchemas
    /\ Messages \in SeqsUpTo(MessageSpace, MaxMessages)
    /\ input \in MessageNames
    /\ output = EmptyMap

NextFindType == FindType

SpecFindType == InitFindType /\ [][NextFindType]_vars

----------------------------------------------------------------------------
(* External-schema resolution: what is fetched and appended *)

Targets(schema, base) == {Parse(base, r) : r \in Range(Work(schema))}

Parsed(l) == l \in DOMAIN xsd /\ xsd[l].status = "ok"

RootTargets == UNION {Targets(Schemas[i], gloc) : i \in 1..nRoot}

StepReach(S) == S \cup UNION {Targets(xsd[l].schemas[1], l) : l \in {m \in S : Parsed(m)}}

RECURSIVE Closure(_, _)
Closure(S, n) == IF n = 0 THEN S ELSE Closure(StepReach(S), n - 1)

\* The locations import/include declarations lead to, from the schemas
\* embedded in the WSDL through every document read so far.
Reachable == Closure(RootTargets, Cardinality(Locs))

\* How often download() appended the schema read at l to Schemas.
AppendedCount(l) == Cardinality({i \in (nRoot + 1)..Len(Schemas) : Schemas[i].src = l})

ResolutionDone == pc = "collide"

\* C3: every location reachable through import/include declarations is
\* fetched exactly once and its schema appended exactly once: never more
\* than once, and once when resolution has finished.
C3_FetchedAndAppendedExactlyOnce ==
    /\ \A l \in Reachable : fetched[l] <= 1 /\ AppendedCount(l) <= 1
    /\ ResolutionDone => \A l \in Reachable : fetched[l] = 1 /\ AppendedCount(l) = 1

\* The same for every location but the WSDL's own.
ExternalsExactlyOnce ==
    /\ \A l \in Reachable \ {gloc} : fetched[l] <= 1 /\ AppendedCount(l) <= 1
    /\ ResolutionDone => \A l \in Reachable \ {gloc} : fetched[l] = 1 /\ AppendedCount(l) = 1

\* C4: resolution of every import/include graph ends: unmarshal returns,
\* with or without an error.
C4_ResolutionTerminates == <>(pc \in {"collide", "returned"})

\* A location that its own imports/includes lead back to.
OnCycle(l) ==
    /\ Parsed(l)
    /\ LET RECURSIVE From(_, _)
           From(S, n) == IF n = 0 THEN S ELSE From(StepReach(S), n - 1)
       IN l \in From(Targets(xsd[l].schemas[1], l), Cardinality(Locs))

\* Resolution of a cyclic graph has finished without an error.
C4_Witness == ResolutionDone /\ \E l \in Locs \ {gloc} : OnCycle(l)

\* The calls never nest deeper than MaxStack: the guard on it cuts nothing.
StackBoundUnreached == Len(stack) <= MaxStack

----------------------------------------------------------------------------
(* The collision pass: names and the CollisionMap *)

DeclSet == Range(Decls(Schemas))

\* C1: after the collision pass no two complex-type or simple-type
\* declarations of the whole collection have the same name.
C1_NamesUnique ==
    collided => \A d, e \in DeclSet : d # e => NameAt(Schemas, d) # NameAt(Schemas, e)

\* C2: every renamed declaration is found in the CollisionMap: with original
\* name n in a schema of namespace ns and new name n', the entry for (ns, n)
\* is n'.
C2_RenamedRecoverable ==
    collided =>
        \A d \in DeclSet :
            LET org == NameAt(preSchemas, d)
                key == CollisionKey(Schemas[d[1]].TargetNamespace, org)
            IN NameAt(Schemas, d) # org =>
                  key \in DOMAIN resolveCollisions /\ resolveCollisions[key] = NameAt(Schemas, d)

----------------------------------------------------------------------------
(* Start: order of the phases *)

GenStarted == \E t \in Generators : task[t].pc # "idle"

\* C5: no generation task starts before external-schema resolution has
\* finished, the collision pass has renamed every colliding type and filled
\* the CollisionMap, and the traverser loop has visited every schema; once a
\* generation task has started, neither Schemas nor the CollisionMap changes.
C5_GenerationAfterRenaming ==
    /\ [](GenStarted =>
            /\ stack = <<>> /\ rootIdx > nRoot /\ pc \notin {"unmarshal", "resolve"}
            /\ collided
            /\ Schemas = Resolve(preSchemas, EmptyMap).S
            /\ resolveCollisions = Resolve(preSchemas, EmptyMap).cmap
            /\ traversed = Len(Schemas))
    /\ [][GenStarted => Schemas' = Schemas /\ resolveCollisions' = resolveCollisions]_vars

\* A generator is running on a collection in which types were renamed.
C5_Witness ==
    /\ \E t \in Generators : task[t].pc = "running"
    /\ resolveCollisions # EmptyMap
    /\ Schemas # preSchemas

----------------------------------------------------------------------------
(* Start: the generators' errors *)

StartReturned == ret # NotReturned

Failing == {t \in Generators : task[t].err # NoErr}

\* C6: when a generator failed, Start returns the error of one of the failing
\* generators and a nil map, and generates no header; when none failed, the
\* error Start returns is no generator's.
C6_GeneratorErrorReturned ==
    StartReturned =>
        IF Failing # {}
        THEN /\ ret.err \in {task[t].err : t \in Failing}
             /\ ret.nilMap
             /\ "header" \notin DOMAIN gocode
             /\ "server_header" \notin DOMAIN gocode
        ELSE ret.err \notin {GenError(t) : t \in Generators}

\* Start has returned after two generators failed and one succeeded.
C6_Witness == StartReturned /\ Cardinality(Failing) = 2 /\ Cardinality(DOMAIN gocode) = 1

PastWait == collided /\ pc \notin {"collide", "traverse", "spawn", "wait"}

Reported(t) ==
    /\ task[t].pc = "done"
    /\ IF task[t].err # NoErr THEN genErr # NoErr ELSE t \in DOMAIN gocode /\ gocode[t] = task[t].code

\* C7: Start is past wg.Wait() only when all three generators have stored
\* their result or their error; and once the three generators have returned,
\* whether or not any failed, the wait ends.
C7_WaitForAllThree ==
    /\ [](PastWait => \A t \in Generators : Reported(t))
    /\ ((pc = "wait" /\ \A t \in Generators : task[t].pc # "running") ~> (pc # "wait"))

\* Start is past the wait after one generator failed and a sibling stored
\* its code.
C7_Witness == PastWait /\ Failing # {} /\ \E t \in Generators \ Failing : t \in DOMAIN gocode

----------------------------------------------------------------------------
(* The output files *)

Written(f) == files[f].created /\ files[f].complete

\* C8: when the process has ended, both output files are written or neither
\* exists; a fatal error leaves no output file.
C8_NoPartialOutput ==
    pc = "exit" =>
        /\ (\A f \in Files : Written(f)) \/ (\A f \in Files : ~files[f].created)
        /\ exitCode = "fatal" => \A f \in Files : ~files[f].created

\* C9: with the output file name equal to the WSDL path nothing is loaded,
\* fetched, created or written, and the process ends with a fatal error
\* (unless the version or the usage was all it printed).
C9_RefusesToClobber ==
    args.outFile = args.wsdlPath =>
        /\ pc \in {"main", "exit"}
        /\ gloc = "" /\ wsdlDoc.status = "unread"
        /\ \A l \in Locs : fetched[l] = 0
        /\ ~outDir /\ \A f \in Files : ~files[f].created
        /\ (pc = "exit" /\ ~args.vers /\ args.nargs >= 2) => exitCode = "fatal"

\* The process has ended with the fatal error of the file name check.
C9_Witness ==
    /\ args.outFile = args.wsdlPath /\ ~args.vers /\ args.nargs >= 2
    /\ pc = "exit" /\ exitCode = "fatal"

\* The parts of each file in the order of the output.
Unformatted(f) ==
    IF f = "client"
    THEN Get(ret.code, "header") \o Get(ret.code, "types") \o Get(ret.code, "operations")
         \o Get(ret.code, "soap")
    ELSE Get(ret.code, "server_header") \o Get(ret.code, "server_wsdl") \o Get(ret.code, "server")

\* C10: when format.Source rejects a file's text, formatCode returns the
\* unformatted concatenation of its parts in argument order and that is what
\* is written; the run fails only if a filesystem call fails, and otherwise
\* ends with both files written.
C10_FormatFailureRecovered ==
    \A f \in fmtFailed :
        /\ pc = "write_" \o f => pending = Unformatted(f)
        /\ Written(f) => files[f].content = Unformatted(f)
        /\ exitCode = "fatal" => ioErr # NoErr
        /\ (pc = "exit" /\ ioErr = NoErr) => exitCode = "ok" /\ \A h \in Files : Written(h)

\* The run succeeded although format.Source rejected both files.
C10_Witness == pc = "exit" /\ exitCode = "ok" /\ fmtFailed = Files

----------------------------------------------------------------------------
(* Failures of fetching and parsing *)

Failed(l) == l \in DOMAIN xsd /\ xsd[l].status # "ok"

\* C11: when fetching or parsing the document of an import/include fails, at
\* whatever depth, Start returns that very error and a nil map; no collision
\* resolution and no generation has run or runs; and from then on nothing is
\* fetched (the failing location not a second time, no later import or
\* include at all) and no schema is added.
C11_FailurePropagated ==
    /\ [](\A l \in Locs : Failed(l) =>
            /\ pc \in {"returned", "exit"}
            /\ ret.nilMap /\ ret.err = DocErr(xsd[l], l)
            /\ stack = <<>>
            /\ ~collided /\ resolveCollisions = EmptyMap
            /\ ~GenStarted /\ gocode = EmptyMap
            /\ (pc = "exit" => exitCode = "fatal"))
    /\ [][(\E l \in Locs : Failed(l)) =>
            /\ fetched' = fetched /\ xsd' = xsd
            /\ Schemas' = Schemas /\ resolvedXSDExternals' = resolvedXSDExternals]_vars

\* The run ended on the failure of a document that an external schema
\* imports, after a first external schema was appended.
C11_Witness ==
    /\ pc = "exit"
    /\ \E l \in Locs : /\ Failed(l)
                        /\ \E m \in Locs \ {gloc} : Parsed(m) /\ l \in Targets(xsd[m].schemas[1], m)

----------------------------------------------------------------------------
(* Errors in the command line *)

MissingPath == args.nargs < 2

BadPath == LET file == TrimSpace(args.wsdlPath) IN file = <<>> \/ ParseLocationFails(file)

BlankPkg == TrimSpace(args.pkg) = <<>>

NothingFetched == wsdlDoc.status = "unread" /\ \A l \in Locs : fetched[l] = 0

Aborted ==
    /\ pc \in {"main", "new", "exit"}
    /\ NothingFetched
    /\ pc = "exit" => exitCode \in {"usage", "fatal"}

----------------------------------------------------------------------------
(* Identifier sanitization: reserved words and idempotence *)

\* C13: whatever the identifier, replaceReservedWords never returns a key of
\* reservedWords and replaceAttrReservedWords never returns a key of
\* reservedWordsInAttr (which has "string" too): an identifier whose sanitized
\* form is a reserved word gets the suffix.
C13_NeverReserved ==
    /\ \A i \in DOMAIN Returned("replaceReservedWords") :
            Returned("replaceReservedWords")[i] \notin DOMAIN reservedWords
    /\ \A i \in DOMAIN Returned("replaceAttrReservedWords") :
            Returned("replaceAttrReservedWords")[i] \notin DOMAIN reservedWordsInAttr

\* The order of the range over specialCharacterMapping does not show.
RangeOrderIrrelevant == \A keys \in RangeOrders : normalizeIn(keys, input) = normalize(input)

Reserved(fn, y) ==
    CASE fn = "replaceReservedWords"     -> y \in DOMAIN reservedWords
      [] fn = "replaceAttrReservedWords" -> y \in DOMAIN reservedWordsInAttr
      [] fn = "normalize"                -> y \in DOMAIN reservedWords \cup DOMAIN reservedWordsInAttr

IdentifierText(y) == \A i \in DOMAIN y : IsLetter(y[i]) \/ IsDigit(y[i]) \/ y[i] = "_"

\* C14: for each of replaceReservedWords, replaceAttrReservedWords and
\* normalize, what it returns holds only letters, digits and underscores, and
\* when what it returned for x is no reserved word, it returns that unchanged
\* when called on it.
C14_SanitizeIdempotent ==
    \A fn \in Sanitizers :
        /\ \A i \in DOMAIN Returned(fn) : IdentifierText(Returned(fn)[i])
        /\ (Len(Returned(fn)) = 2 /\ ~Reserved(fn, Returned(fn)[1])) =>
                Returned(fn)[2] = Returned(fn)[1]

\* Each function was called twice on an identifier with a replaced, a mapped
\* and a dropped character, which the first call changed.
C14_Witness ==
    /\ {"+", ".", "!"} \subseteq Range(input)
    /\ \A fn \in Sanitizers :
            /\ Len(Returned(fn)) = 2
            /\ Returned(fn)[1] # input
            /\ ~Reserved(fn, Returned(fn)[1])

----------------------------------------------------------------------------
(* Type mapping *)

BothForms == {"nillable", "value"} \subseteq DOMAIN output

\* C15: for every type name, of xsd2GoTypes or not, in whatever case and
\* with or without a namespace prefix, toGoType(t, true) is "*" followed by
\* toGoType(t, false), and toGoType(t, false) is the direct form, without
\* the "*".
C15_NillableAddsIndirection ==
    BothForms =>
        /\ output["nillable"] = <<"*">> \o output["value"]
        /\ (output["value"] = <<>> \/ Head(output["value"]) # "*")

\* The name toGoType looks up: lower case, the prefix of a QName stripped.
Primitive(xsdType) == StringsToLower(stripns(xsdType)) \in DOMAIN xsd2GoTypes

\* C15 as the code has it: for a name of xsd2GoTypes (compared in lower case,
\* prefix stripped) toGoType(t, false) is the Go type of the table and
\* toGoType(t, true) is "*" followed by it; for every other name the two
\* forms are the same, and both start with "*".
C15_PrimitiveNillableAddsIndirection ==
    BothForms =>
        IF Primitive(input)
        THEN /\ output["value"] = xsd2GoTypes[StringsToLower(stripns(input))]
             /\ output["nillable"] = <<"*">> \o output["value"]
        ELSE /\ output["nillable"] = output["value"]
             /\ Head(output["value"]) = "*"

\* Both forms were computed for a prefixed name that is in the table only
\* when put in lower case.
C15_Witness ==
    /\ BothForms
    /\ ":" \in Range(input)
    /\ Primitive(input)
    /\ stripns(input) \notin DOMAIN xsd2GoTypes

----------------------------------------------------------------------------
(* Message lookup *)

\* The messages whose name is the name looked up, its prefix stripped.
Named == {i \in DOMAIN Messages : Messages[i].Name = stripns(input)}

\* The elements whose name is ref but for the case of its letters.
Matches(ref) ==
    {e \in UNION {{<<i, j>> : j \in DOMAIN Schemas[i].Elements} : i \in DOMAIN Schemas} :
        StringsToLower(Schemas[e[1]].Elements[e[2]].Name) = StringsToLower(ref)}

\* The first of them in the order of the schemas and of their elements.
FirstMatch(ref) ==
    CHOOSE e \in Matches(ref) :
        \A f \in Matches(ref) : e[1] < f[1] \/ (e[1] = f[1] /\ e[2] <= f[2])

\* C16: findType always returns. When one message has the name looked up:
\* without parts it yields the empty string; with parts it yields the first
\* part's type, prefix stripped, if the part declares one; otherwise the type,
\* prefix stripped, of the first element in schema order whose name is the
\* part's element reference (prefix stripped) in whatever case, or that
\* element's name if it declares no type.
C16_FindType ==
    /\ pc = "findType" => ("findType" \in DOMAIN output \/ ENABLED FindType)
    /\ ("findType" \in DOMAIN output /\ Cardinality(Named) = 1) =>
        LET msg == Messages[CHOOSE i \in Named : TRUE]
            result == output["findType"]
        IN IF msg.Parts = <<>> THEN result = <<>>
           ELSE LET part == msg.Parts[1]
                    ref == stripns(part.Element)
                IN IF part.Type # <<>> THEN result = stripns(part.Type)
                   ELSE Matches(ref) # {} =>
                        LET el == Schemas[FirstMatch(ref)[1]].Elements[FirstMatch(ref)[2]]
                        IN result = IF el.Type # <<>> THEN stripns(el.Type) ELSE el.Name

\* findType returned the type of an element of the second schema, whose name
\* has the reference's letters in another case, for a part without a type.
C16_Witness ==
    /\ "findType" \in DOMAIN output
    /\ Cardinality(Named) = 1
    /\ LET msg == Messages[CHOOSE i \in Named : TRUE] IN
        /\ msg.Parts # <<>> /\ msg.Parts[1].Type = <<>>
        /\ Matches(stripns(msg.Parts[1].Element)) # {}
        /\ FirstMatch(stripns(msg.Parts[1].Element))[1] = 2
        /\ Schemas[2].Elements[1].Name # stripns(msg.Parts[1].Element)
        /\ output["findType"] = <<"U">>

\* When no message of that name has a part, the lookup yields the empty
\* string, however many messages have the name.
ZeroPartsSkipped ==
    ("findType" \in DOMAIN output /\ Named # {} /\ \A i \in Named : Messages[i].Parts = <<>>)
        => output["findType"] = <<>>

----------------------------------------------------------------------------
(* The collision pass: the suffixes *)

\* The places, in the order of traversal, of the declarations that had the
\* name n before the pass.
Occurrences(n) ==
    {k \in DOMAIN Decls(preSchemas) : NameAt(preSchemas, Decls(preSchemas)[k]) = n}

----------------------------------------------------------------------------
(* The generators: which error, and the lock *)

\* The failing generators in the order in which they took the lock.
FailedInOrder == SelectSeq(lockOrder, LAMBDA t : task[t].err # NoErr)

\* C18: when two or three generators failed, Start returns the error of the
\* failing generator that took the lock last, whatever the order was.
C18_LastWriterWins ==
    (StartReturned /\ Cardinality(Failing) >= 2) =>
        /\ Len(FailedInOrder) = Cardinality(Failing)
        /\ ret.err = task[FailedInOrder[Len(FailedInOrder)]].err
        /\ ret.err # task[FailedInOrder[1]].err

\* All three failed; they took the lock in the reverse of the order of the
\* go statements, and Start returned the error of genTypes, the last.
C18_Witness ==
    /\ StartReturned
    /\ Failing = Generators
    /\ lockOrder = <<"server", "operations", "types">>
    /\ ret.err = GenError("types")

\* The same three failures surface another error in another interleaving.
C18_OtherOrder ==
    /\ StartReturned
    /\ Failing = Generators
    /\ lockOrder = <<"types", "operations", "server">>
    /\ ret.err = GenError("server")

\* The generators between mu.Lock() and mu.Unlock().
InCritical == {t \in Generators : task[t].pc \in {"locked", "written"}}

\* C19: in every interleaving at most one generator is between Lock and
\* Unlock; while the generators run, the result map and the error variable
\* change only in a step of the generator that holds the mutex, which
\* changes the map at its own key only; and the schemas and messages do
\* not change.
C19_WritesUnderMutex ==
    /\ [](/\ Cardinality(InCritical) <= 1
          /\ \A t \in InCritical : mu = t
          /\ InCritical = {} => mu = "free")
    /\ [][(pc = "wait" /\ (gocode' # gocode \/ genErr' # genErr)) =>
            \E t \in Generators :
                /\ mu = t /\ task[t].pc = "locked" /\ task'[t].pc = "written"
                /\ \A u \in Generators \ {t} : task'[u] = task[u]
                /\ genErr' # genErr => genErr' = task[t].err
                /\ \A k \in DOMAIN gocode' \ {t} : k \in DOMAIN gocode /\ gocode'[k] = gocode[k]
                /\ DOMAIN gocode \subseteq DOMAIN gocode']_vars
    /\ [][pc = "wait" => Schemas' = Schemas /\ Messages' = Messages /\ rawWSDL' = rawWSDL]_vars

\* genTypes has stored its code and still holds the mutex, for which both
\* other generators wait, one with code and one with an error.
C19_Witness ==
    /\ task["types"].pc = "written" /\ mu = "types" /\ "types" \in DOMAIN gocode
    /\ task["operations"].pc = "returned" /\ task["operations"].err = NoErr
    /\ task["server"].pc = "returned" /\ task["server"].err # NoErr

====
